---- MODULE Spec2Model ----
(***************************************************************************)
(* Google Calendar MCP server (src/src/index.ts): the call-tool handler,   *)
(* the seven calendar operations, the cached OAuth client and the startup  *)
(* check, as a state machine.                                              *)
(*                                                                         *)
(* A JavaScript string is a sequence of pieces: a piece is one character   *)
(* (" " is the whitespace character) or an indivisible literal chunk.      *)
(* Concatenation is \o, the empty string is <<>>, and a string is truthy   *)
(* iff it is not <<>>.                                                     *)
(***************************************************************************)
EXTENDS Integers, Sequences, FiniteSets, TLC

\* ------------------------------------------------------------------ bounds

\* Slots for call-tool handlers that can be suspended at the same time.
MaxInFlight == 2
\* Call-tool requests delivered during one run.
MaxDispatch == 2
\* Keys of a request's argument mapping that differ from the tool's plain
\* valid request (a key added, dropped or given another value).
MaxArgEdits == 1

Calls == 1..MaxInFlight

\* ----------------------------------------------------------------- strings

RECURSIVE TrimStart(_)
TrimStart(s) ==
  IF s # <<>> /\ Head(s) = " " THEN TrimStart(Tail(s)) ELSE s

RECURSIVE TrimEnd(_)
TrimEnd(s) ==
  IF s # <<>> /\ s[Len(s)] = " " THEN TrimEnd(SubSeq(s, 1, Len(s) - 1)) ELSE s

\* String.prototype.trim
Trim(s) == TrimEnd(TrimStart(s))

\* JavaScript truthiness of a string
Truthy(s) == s # <<>>

\* a || b on strings
OrElse(a, b) == IF Truthy(a) THEN a ELSE b

\* s.includes(t)
Contains(s, t) ==
  \E i \in 0..(Len(s) - Len(t)) : SubSeq(s, i + 1, i + Len(t)) = t

\* --------------------------------------------------------- utility functions

\* formatError: an error is modelled by its message. "(x) Error: " stands for
\* the cross-mark glyph followed by " Error: ".
formatError(message) == <<"(x) Error: ">> \o message

\* validateRequired without its `value.trim() === ""` test: a whitespace-only
\* value passes
validateRequiredNoTrim(value, name) ==
  IF ~Truthy(value)
    THEN [threw |-> TRUE, message |-> <<name, " is required">>, value |-> <<>>]
    ELSE [threw |-> FALSE, message |-> <<>>, value |-> Trim(value)]

\* validateRequired: throws `${name} is required`, or returns the trimmed value
validateRequired(value, name) ==
  IF ~Truthy(value) \/ Trim(value) = <<>>
    THEN [threw |-> TRUE, message |-> <<name, " is required">>, value |-> <<>>]
    ELSE [threw |-> FALSE, message |-> <<>>, value |-> Trim(value)]

Digits == {"0", "1", "2", "3", "4", "5", "6", "7", "8", "9"}

DigitValue(d) ==
  CASE d = "0" -> 0 [] d = "1" -> 1 [] d = "2" -> 2 [] d = "3" -> 3
    [] d = "4" -> 4 [] d = "5" -> 5 [] d = "6" -> 6 [] d = "7" -> 7
    [] d = "8" -> 8 [] d = "9" -> 9

RECURSIVE LeadingDigits(_, _)
\* the value of the longest prefix of digits of s, accumulated from acc
LeadingDigits(s, acc) ==
  IF s # <<>> /\ Head(s) \in Digits
    THEN LeadingDigits(Tail(s), 10 * acc + DigitValue(Head(s)))
    ELSE acc

\* parseInt(s): leading whitespace skipped, an optional sign, then the longest
\* prefix of digits; NaN when there is none.
parseInt(s) ==
  LET t == TrimStart(s)
      neg == t # <<>> /\ Head(t) = "-"
      u == IF t # <<>> /\ Head(t) \in {"-", "+"} THEN Tail(t) ELSE t
  IN IF u # <<>> /\ Head(u) \in Digits
       THEN [nan |-> FALSE,
             n |-> IF neg THEN 0 - LeadingDigits(u, 0) ELSE LeadingDigits(u, 0)]
       ELSE [nan |-> TRUE, n |-> 0]

DefaultMaxResults == 10

\* parseInt(maxResults) without its `|| 10`: what parseInt gave is sent, NaN
\* as 0
maxResultsNumNoDefault(maxResults) == parseInt(maxResults).n

\* parseInt(maxResults) || 10
maxResultsNum(maxResults) ==
  LET r == parseInt(maxResults)
  IN IF r.nan \/ r.n = 0 THEN DefaultMaxResults ELSE r.n

\* The date strings Date can parse, with the instant each denotes as
\* toISOString prints it (the process runs in UTC, so a string without an
\* offset denotes the same instant as the string with Z).
IsoOf ==
  ( <<"2025-11-27T14:00:00">> :> <<"2025-11-27T14:00:00.000Z">> ) @@
  ( <<"2025-11-27T14:00:00Z">> :> <<"2025-11-27T14:00:00.000Z">> ) @@
  ( <<"2025-11-27T15:00:00">> :> <<"2025-11-27T15:00:00.000Z">> )

\* A conversion that passes on what Date made of the string, "Invalid Date"
\* included, and never throws
toISOStringLenient(s) ==
  [threw |-> FALSE, message |-> <<>>,
   value |-> IF s \in DOMAIN IsoOf THEN IsoOf[s] ELSE <<"Invalid Date">>]

\* new Date(s).toISOString(): throws RangeError on an Invalid Date
toISOString(s) ==
  IF s \in DOMAIN IsoOf
    THEN [threw |-> FALSE, message |-> <<>>, value |-> IsoOf[s]]
    ELSE [threw |-> TRUE, message |-> <<"Invalid time value">>, value |-> <<>>]

\* new Date().toISOString(): the clock's reading
Now == <<"<now>">>

\* `${x}` of a value that may be undefined
Show(x) == IF x = <<>> THEN <<"undefined">> ELSE x

\* ------------------------------------------------------------ tool requests

\* TOOLS: the seven tool names
ToolNames ==
  {"list_events", "create_event", "update_event", "delete_event",
   "search_events", "list_calendars", "get_event"}

\* The keys each case of the handler's switch reads from the argument mapping
KeysOf(tool) ==
  CASE tool = "list_events" -> {"maxResults", "calendarId", "timeMin", "timeMax"}
    [] tool = "create_event" ->
         {"summary", "start", "end", "description", "location", "attendees",
          "calendarId"}
    [] tool = "update_event" ->
         {"eventId", "summary", "start", "end", "description", "location",
          "calendarId"}
    [] tool = "delete_event" -> {"eventId", "calendarId"}
    [] tool = "search_events" -> {"query", "maxResults", "calendarId"}
    [] tool = "list_calendars" -> {}
    [] tool = "get_event" -> {"eventId", "calendarId"}

AllKeys == UNION {KeysOf(t) : t \in ToolNames}

\* The default of each parameter: `|| "10"`, `|| "primary"`, `|| ""` in the
\* handler, and the same defaults in the operations' signatures.
DefaultOf(key) ==
  CASE key = "maxResults" -> <<"1", "0">>
    [] key = "calendarId" -> <<"primary">>
    [] OTHER -> <<>>

\* A request's params: the tool name and the argument mapping, which may be
\* missing altogether (hasArgs = FALSE) and holds any subset of the keys.
\* (args?.key as string) || default
ArgOr(req, key, default) ==
  IF req.hasArgs /\ key \in DOMAIN req.args
    THEN OrElse(req.args[key], default)
    ELSE default

\* The parameters the handler's case passes to the operation; a parameter the
\* case does not pass keeps the default of the operation's signature.
ParamsOf(tool, req) ==
  [key \in AllKeys |->
     IF key \in KeysOf(tool) THEN ArgOr(req, key, DefaultOf(key))
     ELSE DefaultOf(key)]

\* The values a request may give each key
ArgValues(key) ==
  CASE key = "maxResults" -> {<<>>, <<"abc">>, <<"5">>, <<"0">>}
    [] key = "calendarId" -> {<<"work">>}
    [] key = "timeMin" -> {<<"bad">>, <<"2025-11-27T14:00:00">>}
    [] key = "timeMax" -> {<<"bad">>, <<"2025-11-27T15:00:00">>}
    [] key = "summary" ->
         {<<>>, <<" ">>, <<"Team", " ", "Sync">>, <<" ", "Standup", " ">>}
    [] key = "start" ->
         {<<>>, <<" ">>, <<"bad">>, <<"2025-11-27T14:00:00">>,
          <<"2025-11-27T14:00:00Z">>}
    [] key = "end" -> {<<>>, <<"bad">>, <<"2025-11-27T15:00:00">>}
    [] key = "description" -> {<<>>, <<"notes">>}
    [] key = "location" -> {<<>>, <<"room">>}
    [] key = "attendees" -> {<<"a@x">>, <<"a@x", ",", " ", "b@x">>}
    [] key = "eventId" ->
         {<<>>, <<" ">>, <<"e1">>, <<" ", "e1">>, <<"e2">>, <<"e9">>}
    [] key = "query" -> {<<>>, <<" ">>, <<"Sync">>, <<" ", "Sync">>}

\* The plain valid argument mapping of each tool
BaseArgs(tool) ==
  CASE tool = "create_event" ->
         [key \in {"summary", "start", "end"} |->
            CASE key = "summary" -> <<"Team", " ", "Sync">>
              [] key = "start" -> <<"2025-11-27T14:00:00">>
              [] key = "end" -> <<"2025-11-27T15:00:00">>]
    [] tool \in {"update_event", "delete_event", "get_event"} ->
         [key \in {"eventId"} |-> <<"e1">>]
    [] tool = "search_events" -> [key \in {"query"} |-> <<"Sync">>]
    [] OTHER -> [key \in {} |-> <<>>]

\* A key's entry in a mapping: <<>> when the key is absent, <<value>> otherwise
EntryOf(m, key) == IF key \in DOMAIN m THEN <<m[key]>> ELSE <<>>

AllEntries == {<<>>} \cup {<<v>> : v \in UNION {ArgValues(k) : k \in AllKeys}}

\* The mappings that differ from the tool's plain valid mapping in the keys E
EditsOf(tool, E) ==
  LET base == BaseArgs(tool)
      ok(f) == \A k \in E : /\ f[k] # EntryOf(base, k)
                            /\ f[k] = <<>> \/ f[k][1] \in ArgValues(k)
      entry(f, k) == IF k \in E THEN f[k] ELSE EntryOf(base, k)
  IN { [k \in {x \in KeysOf(tool) : entry(f, x) # <<>>} |-> entry(f, k)[1]] :
         f \in {g \in [E -> AllEntries] : ok(g)} }

ArgMappings(tool) ==
  UNION {EditsOf(tool, E) :
           E \in {S \in SUBSET KeysOf(tool) : Cardinality(S) <= MaxArgEdits}}
    \cup {[key \in {} |-> <<>>]}

UnknownNames == {<<"nonexistent_tool">>, <<"get_event", " ">>, <<>>}

NoArgs == [key \in {} |-> <<>>]

\* Every call-tool request the client may send: each recognized tool with its
\* mappings and with no mapping at all, and some names that are no tool's.
Requests ==
  UNION {{[name |-> <<t>>, hasArgs |-> TRUE, args |-> m] : m \in ArgMappings(t)}
           \cup {[name |-> <<t>>, hasArgs |-> FALSE, args |-> NoArgs]} :
         t \in ToolNames}
    \cup {[name |-> n, hasArgs |-> TRUE, args |-> NoArgs] : n \in UnknownNames}
    \cup {[name |-> <<"nonexistent_tool">>, hasArgs |-> TRUE,
           args |-> [key \in {"eventId"} |-> <<"e1">>]]}

NoRequest == [name |-> <<>>, hasArgs |-> FALSE, args |-> NoArgs]

\* ------------------------------------------------- remote calendar service

\* The ids the service gives to events, in the order it hands them out
EventIds == << <<"e1">>, <<"e2">> >>

Timed(iso) == [dateTime |-> iso, date |-> <<>>, timeZone |-> <<"UTC">>]

AllDay(day) == [dateTime |-> <<>>, date |-> day, timeZone |-> <<>>]

\* The events on the primary calendar when the server starts
InitialEvents ==
  ( <<"e1">> :>
      [id |-> <<"e1">>,
       summary |-> <<"Team", " ", "Sync">>,
       start |-> Timed(<<"2025-11-20T09:00:00.000Z">>),
       end |-> Timed(<<"2025-11-20T10:00:00.000Z">>),
       description |-> <<"agenda">>,
       location |-> <<"HQ">>,
       attendees |-> << [email |-> <<"a@x">>, responseStatus |-> <<"accepted">>] >>,
       entryPoints |-> << [entryPointType |-> <<"video">>, uri |-> <<"https://meet/e1">>] >>,
       status |-> <<"confirmed">>,
       htmlLink |-> <<"https://calendar/", "e1">>] )

\* The calendars calendarList.list returns
Calendars ==
  << [id |-> <<"primary">>, summary |-> <<"Personal">>, description |-> <<>>,
      primary |-> TRUE, accessRole |-> <<"owner">>] >>

\* A field of a JavaScript object, or absent when the object has no such key
Field(obj, key, absent) == IF key \in DOMAIN obj THEN obj[key] ELSE absent

FreeIds(store) ==
  {i \in 1..Len(EventIds) : EventIds[i] \notin DOMAIN store}

FirstFreeId(store) ==
  EventIds[CHOOSE i \in FreeIds(store) : \A j \in FreeIds(store) : i <= j]

\* events.insert: the service stores the body under a fresh id
Inserted(store, body) ==
  LET id == FirstFreeId(store)
  IN [id |-> id,
      summary |-> Field(body, "summary", <<>>),
      start |-> body["start"],
      end |-> body["end"],
      description |-> Field(body, "description", <<>>),
      location |-> Field(body, "location", <<>>),
      attendees |-> Field(body, "attendees", <<>>),
      entryPoints |-> <<>>,
      status |-> <<"confirmed">>,
      htmlLink |-> <<"https://calendar/">> \o id]

\* events.update replaces the whole event resource by the body: a writable
\* field the body leaves out is cleared.
Updated(old, body) ==
  [old EXCEPT !.summary = Field(body, "summary", <<>>),
              !.start = body["start"],
              !.end = body["end"],
              !.description = Field(body, "description", <<>>),
              !.location = Field(body, "location", <<>>),
              !.attendees = Field(body, "attendees", <<>>)]

RECURSIVE Take(_, _)
Take(seq, n) ==
  IF n <= 0 \/ seq = <<>> THEN <<>> ELSE <<Head(seq)>> \o Take(Tail(seq), n - 1)

RECURSIVE EventsIn(_, _, _)
\* the stored events among ids, in id order, whose summary contains q
EventsIn(store, ids, q) ==
  IF ids = <<>> THEN <<>>
  ELSE (IF Head(ids) \in DOMAIN store /\ Contains(store[Head(ids)].summary, q)
          THEN <<store[Head(ids)]>> ELSE <<>>)
       \o EventsIn(store, Tail(ids), q)

Failure(message, store) ==
  [ok |-> FALSE, message |-> message, data |-> <<>>, store |-> store]

Success(data, store) ==
  [ok |-> TRUE, message |-> <<>>, data |-> data, store |-> store]

\* The responses the service may give to a request in a given store: the
\* result of carrying it out, or a failure that leaves the store as it was
\* (the client holds no token, the event or calendar does not exist, or the
\* call did not get through).
RemoteOutcomes(req, store, client) ==
  LET a == req.args
      known == Field(a, "calendarId", <<"primary">>) = <<"primary">>
      found == known /\ Field(a, "eventId", <<>>) \in DOMAIN store
  IN {Failure(<<"socket hang up">>, store)} \cup
     CASE client.credentials # "set" -> {Failure(<<"Login Required.">>, store)}
       [] req.api = "calendarList.list" -> {Success(Calendars, store)}
       [] req.api = "events.list" ->
            IF known
              THEN {Success(Take(EventsIn(store, EventIds, Field(a, "q", <<>>)),
                                 a["maxResults"]), store)}
              ELSE {Failure(<<"Not Found">>, store)}
       [] req.api = "events.insert" ->
            IF ~known THEN {Failure(<<"Not Found">>, store)}
            ELSE IF FreeIds(store) = {}
              THEN {Failure(<<"Calendar usage limits exceeded.">>, store)}
            ELSE LET e == Inserted(store, a["requestBody"])
                 IN {Success(e, (e.id :> e) @@ store)}
       [] req.api = "events.get" ->
            IF found THEN {Success(store[a["eventId"]], store)}
            ELSE {Failure(<<"Not Found">>, store)}
       [] req.api = "events.update" ->
            IF found
              THEN LET e == Updated(store[a["eventId"]], a["requestBody"])
                   IN {Success(e, [store EXCEPT ![e.id] = e])}
              ELSE {Failure(<<"Not Found">>, store)}
       [] req.api = "events.delete" ->
            IF found
              THEN {Success(<<>>,
                      [i \in DOMAIN store \ {a["eventId"]} |-> store[i]])}
              ELSE {Failure(<<"Not Found">>, store)}

\* -------------------------------------------------------- tool implementations

Call(api, args) == [api |-> api, args |-> args]

NoCall == Call("none", NoArgs)

\* What a stretch of an operation between two suspensions ends in: an
\* exception, a remote call, or the returned text.
Throw(message) == [kind |-> "throw", message |-> message, call |-> NoCall, text |-> <<>>]

Await(call) == [kind |-> "await", message |-> <<>>, call |-> call, text |-> <<>>]

Return(text) == [kind |-> "return", message |-> <<>>, call |-> NoCall, text |-> text]

\* event.start?.dateTime || event.start?.date
When(t) == OrElse(t.dateTime, t.date)

RECURSIVE SplitOn(_, _, _)
\* s.split(sep), cur being the part read so far
SplitOn(s, sep, cur) ==
  IF s = <<>> THEN <<cur>>
  ELSE IF Head(s) = sep THEN <<cur>> \o SplitOn(Tail(s), sep, <<>>)
  ELSE SplitOn(Tail(s), sep, Append(cur, Head(s)))

\* attendees.split(",").map(email => ({ email: email.trim() }))
AttendeeList(attendees) ==
  LET parts == SplitOn(attendees, ",", <<>>)
  IN [i \in 1..Len(parts) |-> [email |-> Trim(parts[i]), responseStatus |-> <<>>]]

RECURSIVE Join(_, _)
\* strs.join(sep)
Join(strs, sep) ==
  IF strs = <<>> THEN <<>>
  ELSE IF Len(strs) = 1 THEN strs[1]
  ELSE strs[1] \o sep \o Join(Tail(strs), sep)

\* Operations that open with `await getCalendar()`, their validateRequired
\* calls left out of the stretch before it
RequiredOfNothing(tool) == <<>>

\* The required inputs each operation validates, in the order it validates them
RequiredOf(tool) ==
  CASE tool = "create_event" -> <<"summary", "start", "end">>
    [] tool \in {"update_event", "delete_event", "get_event"} -> <<"eventId">>
    [] tool = "search_events" -> <<"query">>
    [] OTHER -> <<>>

RECURSIVE ValidateAll(_, _)
\* the validateRequired calls that open an operation: the first that throws
ValidateAll(p, names) ==
  IF names = <<>> THEN [threw |-> FALSE, message |-> <<>>, value |-> <<>>]
  ELSE LET v == validateRequired(p[Head(names)], Head(names))
       IN IF v.threw THEN v ELSE ValidateAll(p, Tail(names))

\* listEvents from the client it got to the events.list call
listEventsCall(p) ==
  LET tmin == IF Truthy(p["timeMin"]) THEN toISOString(p["timeMin"])
              ELSE [threw |-> FALSE, message |-> <<>>, value |-> Now]
      tmax == toISOString(p["timeMax"])
      params == ("calendarId" :> p["calendarId"])
                  @@ ("maxResults" :> maxResultsNum(p["maxResults"]))
                  @@ ("singleEvents" :> TRUE)
                  @@ ("orderBy" :> <<"startTime">>)
                  @@ ("timeMin" :> tmin.value)
  IN IF tmin.threw THEN Throw(tmin.message)
     ELSE IF ~Truthy(p["timeMax"]) THEN Await(Call("events.list", params))
     ELSE IF tmax.threw THEN Throw(tmax.message)
     ELSE Await(Call("events.list", params @@ ("timeMax" :> tmax.value)))

\* createEvent from the client it got to the events.insert call
createEventCall(p) ==
  LET start == toISOString(p["start"])
      end == toISOString(p["end"])
      eventData ==
        ("summary" :> p["summary"])
          @@ ("start" :> Timed(start.value))
          @@ ("end" :> Timed(end.value))
          @@ (IF Truthy(p["description"])
                THEN "description" :> p["description"] ELSE NoArgs)
          @@ (IF Truthy(p["location"])
                THEN "location" :> p["location"] ELSE NoArgs)
          @@ (IF Truthy(p["attendees"])
                THEN "attendees" :> AttendeeList(p["attendees"]) ELSE NoArgs)
  IN IF start.threw THEN Throw(start.message)
     ELSE IF end.threw THEN Throw(end.message)
     ELSE Await(Call("events.insert",
                     ("calendarId" :> p["calendarId"])
                       @@ ("requestBody" :> eventData)))

\* calendar.events.get({calendarId, eventId}) of updateEvent and getEvent
eventsGetCall(p) ==
  Await(Call("events.get",
             ("calendarId" :> p["calendarId"]) @@ ("eventId" :> p["eventId"])))

\* `description !== undefined`, `location !== undefined`: the parameter is a
\* string, its default "" having replaced undefined
IsDefined(value) == TRUE

\* updateEvent from the events.get response to the events.update call
updateEventCall(p, existing) ==
  LET start == toISOString(p["start"])
      end == toISOString(p["end"])
      eventData ==
        ("summary" :> OrElse(p["summary"], existing.summary))
          @@ ("start" :> IF Truthy(p["start"]) THEN Timed(start.value)
                         ELSE existing.start)
          @@ ("end" :> IF Truthy(p["end"]) THEN Timed(end.value)
                       ELSE existing.end)
          @@ (IF IsDefined(p["description"])
                THEN "description" :> p["description"] ELSE NoArgs)
          @@ (IF IsDefined(p["location"])
                THEN "location" :> p["location"] ELSE NoArgs)
  IN IF Truthy(p["start"]) /\ start.threw THEN Throw(start.message)
     ELSE IF Truthy(p["end"]) /\ end.threw THEN Throw(end.message)
     ELSE Await(Call("events.update",
                     ("calendarId" :> p["calendarId"])
                       @@ ("eventId" :> p["eventId"])
                       @@ ("requestBody" :> eventData)))

deleteEventCall(p) ==
  Await(Call("events.delete",
             ("calendarId" :> p["calendarId"]) @@ ("eventId" :> p["eventId"])))

searchEventsCall(p) ==
  Await(Call("events.list",
             ("calendarId" :> p["calendarId"])
               @@ ("q" :> p["query"])
               @@ ("maxResults" :> maxResultsNum(p["maxResults"]))
               @@ ("singleEvents" :> TRUE)
               @@ ("orderBy" :> <<"startTime">>)))

listCalendarsCall == Await(Call("calendarList.list", NoArgs))

\* An operation from `await getCalendar()` to its first remote call
FirstCall(tool, p) ==
  CASE tool = "list_events" -> listEventsCall(p)
    [] tool = "create_event" -> createEventCall(p)
    [] tool = "update_event" -> eventsGetCall(p)
    [] tool = "delete_event" -> deleteEventCall(p)
    [] tool = "search_events" -> searchEventsCall(p)
    [] tool = "list_calendars" -> listCalendarsCall
    [] tool = "get_event" -> eventsGetCall(p)

\* ------------------------------------------------------------ success reports
\* "(ok)", "(cal)", "(pin)" and "(find)" stand for the check-mark, calendar,
\* pin and magnifier glyphs.

Emails(attendees) == [i \in 1..Len(attendees) |-> attendees[i].email]

listEventsBlock(event) ==
  <<"(pin) ">> \o OrElse(event.summary, <<"Untitled Event">>) \o <<"\n">>
    \o <<"   ID: ">> \o event.id \o <<"\n">>
    \o <<"   Start: ">> \o Show(When(event.start)) \o <<"\n">>
    \o <<"   End: ">> \o Show(When(event.end)) \o <<"\n">>
    \o (IF Truthy(event.description)
          THEN <<"   Description: ">> \o event.description \o <<"\n">> ELSE <<>>)
    \o (IF Truthy(event.location)
          THEN <<"   Location: ">> \o event.location \o <<"\n">> ELSE <<>>)
    \o (IF Len(event.attendees) > 0
          THEN <<"   Attendees: ">> \o Join(Emails(event.attendees), <<", ">>)
                 \o <<"\n">>
          ELSE <<>>)
    \o <<"\n">>

RECURSIVE listEventsBlocks(_)
\* the for loop of listEvents over the events
listEventsBlocks(seq) ==
  IF seq = <<>> THEN <<>> ELSE listEventsBlock(Head(seq)) \o listEventsBlocks(Tail(seq))

listEventsText(events) ==
  IF Len(events) = 0 THEN <<"(cal) No upcoming events found.">>
  ELSE <<"(cal) Found ", ToString(Len(events)), " event(s):\n\n">>
         \o listEventsBlocks(events)

createEventText(data) ==
  <<"(ok) Event created successfully!\n\n">>
    \o <<"(pin) ">> \o Show(data.summary) \o <<"\n">>
    \o <<"   ID: ">> \o data.id \o <<"\n">>
    \o <<"   Start: ">> \o Show(When(data.start)) \o <<"\n">>
    \o <<"   End: ">> \o Show(When(data.end)) \o <<"\n">>
    \o <<"   Link: ">> \o data.htmlLink

updateEventText(data) ==
  <<"(ok) Event updated successfully!\n\n">>
    \o <<"(pin) ">> \o Show(data.summary) \o <<"\n">>
    \o <<"   ID: ">> \o data.id \o <<"\n">>
    \o <<"   Start: ">> \o Show(When(data.start)) \o <<"\n">>
    \o <<"   End: ">> \o Show(When(data.end))

deleteEventText(eventId) ==
  <<"(ok) Event deleted successfully!\n   Event ID: ">> \o eventId

searchEventsBlock(event) ==
  <<"(pin) ">> \o OrElse(event.summary, <<"Untitled Event">>) \o <<"\n">>
    \o <<"   ID: ">> \o event.id \o <<"\n">>
    \o <<"   Start: ">> \o Show(When(event.start)) \o <<"\n">>
    \o (IF Truthy(event.description)
          THEN <<"   Description: ">> \o event.description \o <<"\n">> ELSE <<>>)
    \o <<"\n">>

RECURSIVE searchEventsBlocks(_)
\* the for loop of searchEvents over the events
searchEventsBlocks(seq) ==
  IF seq = <<>> THEN <<>> ELSE searchEventsBlock(Head(seq)) \o searchEventsBlocks(Tail(seq))

searchEventsText(events, query) ==
  IF Len(events) = 0
    THEN <<"(find) No events found matching: \"">> \o query \o <<"\"">>
  ELSE <<"(find) Found ", ToString(Len(events)), " event(s) matching \"">>
         \o query \o <<"\":\n\n">>
         \o searchEventsBlocks(events)

listCalendarsBlock(cal) ==
  <<"(pin) ">> \o OrElse(cal.summary, <<"Untitled Calendar">>) \o <<"\n">>
    \o <<"   ID: ">> \o cal.id \o <<"\n">>
    \o (IF Truthy(cal.description)
          THEN <<"   Description: ">> \o cal.description \o <<"\n">> ELSE <<>>)
    \o <<"   Primary: ", IF cal.primary THEN "Yes" ELSE "No", "\n">>
    \o <<"   Access: ">> \o cal.accessRole \o <<"\n">>
    \o <<"\n">>

RECURSIVE listCalendarsBlocks(_)
\* the for loop of listCalendars over the calendars
listCalendarsBlocks(seq) ==
  IF seq = <<>> THEN <<>> ELSE listCalendarsBlock(Head(seq)) \o listCalendarsBlocks(Tail(seq))

listCalendarsText(calendars) ==
  IF Len(calendars) = 0 THEN <<"(cal) No calendars found.">>
  ELSE <<"(cal) Found ", ToString(Len(calendars)), " calendar(s):\n\n">>
         \o listCalendarsBlocks(calendars)

getEventAttendee(attendee) ==
  <<"  - ">> \o attendee.email \o <<" (">>
    \o OrElse(attendee.responseStatus, <<"no response">>) \o <<")\n">>

RECURSIVE getEventAttendees(_)
\* the for loop of getEvent over the attendees
getEventAttendees(seq) ==
  IF seq = <<>> THEN <<>> ELSE getEventAttendee(Head(seq)) \o getEventAttendees(Tail(seq))

getEventEntry(entry) ==
  <<"  - ">> \o entry.entryPointType \o <<": ">> \o entry.uri \o <<"\n">>

RECURSIVE getEventEntries(_)
\* the for loop of getEvent over the entry points
getEventEntries(seq) ==
  IF seq = <<>> THEN <<>> ELSE getEventEntry(Head(seq)) \o getEventEntries(Tail(seq))

\* A getEvent that prints `event.start?.date` and `event.end?.date` alone: a
\* timed event's start and end come out undefined
getEventTextDateOnly(event) ==
  <<"(pin) ">> \o OrElse(event.summary, <<"Untitled Event">>) \o <<"\n\n">>
    \o <<"ID: ">> \o event.id \o <<"\n">>
    \o <<"Start: ">> \o Show(event.start.date) \o <<"\n">>
    \o <<"End: ">> \o Show(event.end.date) \o <<"\n">>
    \o <<"Status: ">> \o event.status \o <<"\n">>
    \o <<"\nLink: ">> \o event.htmlLink

getEventText(event) ==
  <<"(pin) ">> \o OrElse(event.summary, <<"Untitled Event">>) \o <<"\n\n">>
    \o <<"ID: ">> \o event.id \o <<"\n">>
    \o <<"Start: ">> \o Show(When(event.start)) \o <<"\n">>
    \o <<"End: ">> \o Show(When(event.end)) \o <<"\n">>
    \o <<"Status: ">> \o event.status \o <<"\n">>
    \o (IF Truthy(event.description)
          THEN <<"Description: ">> \o event.description \o <<"\n">> ELSE <<>>)
    \o (IF Truthy(event.location)
          THEN <<"Location: ">> \o event.location \o <<"\n">> ELSE <<>>)
    \o (IF Len(event.attendees) > 0
          THEN <<"\nAttendees:\n">> \o getEventAttendees(event.attendees)
          ELSE <<>>)
    \o (IF Len(event.entryPoints) > 0
          THEN <<"\nConference:\n">> \o getEventEntries(event.entryPoints)
          ELSE <<>>)
    \o <<"\nLink: ">> \o event.htmlLink

\* A getEvent that writes the event back after it has read it, the way
\* updateEvent does
AfterResponseWritingBack(tool, p, call, data) ==
  CASE tool = "list_events" -> Return(listEventsText(data))
    [] tool = "create_event" -> Return(createEventText(data))
    [] tool = "update_event" ->
         IF call.api = "events.get" THEN updateEventCall(p, data)
         ELSE Return(updateEventText(data))
    [] tool = "delete_event" -> Return(deleteEventText(p["eventId"]))
    [] tool = "search_events" -> Return(searchEventsText(data, p["query"]))
    [] tool = "list_calendars" -> Return(listCalendarsText(data))
    [] tool = "get_event" ->
         IF call.api = "events.get" THEN updateEventCall(p, data)
         ELSE Return(getEventText(data))

\* An updateEvent that returns after its events.get, without the update
AfterResponseGetOnly(tool, p, call, data) ==
  CASE tool = "list_events" -> Return(listEventsText(data))
    [] tool = "create_event" -> Return(createEventText(data))
    [] tool = "update_event" -> Return(updateEventText(data))
    [] tool = "delete_event" -> Return(deleteEventText(p["eventId"]))
    [] tool = "search_events" -> Return(searchEventsText(data, p["query"]))
    [] tool = "list_calendars" -> Return(listCalendarsText(data))
    [] tool = "get_event" -> Return(getEventText(data))

\* An operation from the response of a remote call to its next remote call,
\* its return or an exception
AfterResponse(tool, p, call, data) ==
  CASE tool = "list_events" -> Return(listEventsText(data))
    [] tool = "create_event" -> Return(createEventText(data))
    [] tool = "update_event" ->
         IF call.api = "events.get" THEN updateEventCall(p, data)
         ELSE Return(updateEventText(data))
    [] tool = "delete_event" -> Return(deleteEventText(p["eventId"]))
    [] tool = "search_events" -> Return(searchEventsText(data, p["query"]))
    [] tool = "list_calendars" -> Return(listCalendarsText(data))
    [] tool = "get_event" -> Return(getEventText(data))

\* ------------------------------------------------------ credentials and client

\* What a read of the credentials file can find: no file, a file that cannot
\* be read, text that is not JSON, a document with neither `installed` nor
\* `web`, one whose sub-object has no redirect_uris, one whose sub-object has
\* no client_id, or a complete document.
CredentialsStates ==
  {"missing", "unreadable", "badjson", "nosub", "nouris", "noid", "ok"}

\* What a read of the token file can find
TokenStates == {"missing", "unreadable", "badjson", "ok"}

\* let auth: OAuth2Client | null = null
NoAuth == [id |-> 0, credentials |-> "none"]

\* new google.auth.OAuth2(...) followed by auth.setCredentials(token): the
\* n-th client the process constructs, holding the token
NewClient(n) == [id |-> n, credentials |-> "set"]

\* initializeAuth without its `if (auth) return auth`
IsCachedNever(a) == FALSE

\* `if (auth) return auth`
IsCached(a) == a # NoAuth

\* readFile(CREDENTIALS_PATH) and JSON.parse: whether either throws
CredentialsLoadThrows(found) == found \in {"missing", "unreadable", "badjson"}

\* A token load whose failure is swallowed: the client is built without it
TokenLoadThrowsNever(content) == FALSE

\* readFile(TOKEN_PATH) and JSON.parse: whether either throws
TokenLoadThrows(found) == found \in {"missing", "unreadable", "badjson"}

\* The destructuring of `credentials.installed || credentials.web` and
\* `redirect_uris[0]`: whether either throws. An absent client_id is passed
\* on to the constructor as undefined.
ClientSetupThrows(parsed) == parsed \in {"nosub", "nouris"}

\* An initializeAuth that constructs and caches the client before it loads
\* the token: after a failure the cache holds a client without credentials
AuthAfterFailureCached(a, n) == [id |-> n, credentials |-> "none"]

\* The module-level auth after initializeAuth has thrown: the assignment is
\* the last statement that can throw, so auth is what it was.
AuthAfterFailure(a, n) == a

\* The message of the Error initializeAuth throws from its catch
AuthInitMessage ==
  <<"Failed to initialize Google Calendar authentication. Make sure credentials and token files are properly set up.">>

\* ----------------------------------------------------------- call-tool handler

\* A switch that matches the name up to surrounding whitespace
CaseOfTrimmed(name) ==
  IF Len(Trim(name)) = 1 /\ Trim(name)[1] \in ToolNames
    THEN Trim(name)[1] ELSE "default"

\* The switch on the tool name: the matching case, or the default
CaseOf(name) ==
  IF Len(name) = 1 /\ name[1] \in ToolNames THEN name[1] ELSE "default"

ToolResult(text, isError) ==
  [raised |-> FALSE, content |-> <<[type |-> "text", text |-> text]>>,
   isError |-> isError]

NoResult == [raised |-> FALSE, content |-> <<>>, isError |-> FALSE]

\* A case that returns the operation's text without the content block
WrappedBare(text) == [raised |-> FALSE, content |-> <<>>, isError |-> FALSE]

\* return { content: [{ type: "text", text: await operation(...) }] }
Wrapped(text) == ToolResult(text, FALSE)

\* The handler's catch: the formatted error, marked as an error
HandlerCatch(message) == ToolResult(formatError(message), TRUE)

\* A catch that reports a fixed text in place of the error's message
OperationCatchGeneric(message) == formatError(<<"Something went wrong">>)

\* The catch of each operation: `return formatError(error)`
OperationCatch(message) == formatError(message)

\* A startup check whose catch logs the missing file and goes on
StartupCheckLogOnly(exists) == "continue"

\* main's startup check of one file: fs.access throws when the file does not
\* exist, and the catch ends the process
StartupCheck(exists) == IF exists THEN "continue" ELSE "exit"

\* ------------------------------------------------------------------- state

VARIABLES
  mainpc,           \* where main is: start, checkToken, connecting, connected, exited
  exitCode,         \* the status the process exited with, 0 while it runs
  credentialsSeen,  \* what main's check of the credentials file found
  tokenSeen,        \* what main's check of the token file found
  toolsListed,      \* whether a list-tools request has been answered
  auth,             \* the module-level cached client
  clients,          \* how many OAuth2 clients have been constructed
  events,           \* the events the remote service stores
  dispatched,       \* how many call-tool requests have been delivered
  pc,               \* per handler: idle, readCredentials, readToken, remote, done
  request,          \* per handler: the request's params
  credentials,      \* per handler: the parsed credentials document
  authClient,       \* per handler: the client getCalendar obtained
  pending,          \* per handler: the remote call it is suspended on
  result,           \* per handler: the ToolResult it returned
  returned,         \* per handler: the text its operation returned, if it did
  calls,            \* per handler: the remote calls it has issued, in order
  reads,            \* per handler: the files it has read, in order
  before,           \* per handler: the remote events when the request arrived
  found,            \* per handler (history): what each of its reads found
  thrown,           \* per handler (history): the remote error its last call met
  log               \* history: what the last createEvent and getEvent reported,
                    \* and whether an initializeAuth has failed

vars ==
  <<mainpc, exitCode, credentialsSeen, tokenSeen, toolsListed, auth, clients,
    events, dispatched, pc, request, credentials, authClient, pending, result,
    returned, calls, reads, before, found, thrown, log>>

startupVars == <<mainpc, exitCode, credentialsSeen, tokenSeen>>

handlerVars ==
  <<pc, request, credentials, authClient, pending, result, returned, calls,
    reads, before, found, thrown>>

ExitFailure == 1

\* Nothing reported yet, or nothing that a later write has not overtaken
NoLog == [created |-> <<>>, got |-> <<>>, initFailed |-> FALSE]

Init ==
  /\ mainpc = "start"
  /\ exitCode = 0
  /\ credentialsSeen = "unchecked"
  /\ tokenSeen = "unchecked"
  /\ toolsListed = FALSE
  /\ auth = NoAuth
  /\ clients = 0
  /\ events = InitialEvents
  /\ dispatched = 0
  /\ pc = [c \in Calls |-> "idle"]
  /\ request = [c \in Calls |-> NoRequest]
  /\ credentials = [c \in Calls |-> "none"]
  /\ authClient = [c \in Calls |-> NoAuth]
  /\ pending = [c \in Calls |-> NoCall]
  /\ result = [c \in Calls |-> NoResult]
  /\ returned = [c \in Calls |-> <<>>]
  /\ calls = [c \in Calls |-> <<>>]
  /\ reads = [c \in Calls |-> <<>>]
  /\ before = [c \in Calls |-> InitialEvents]
  /\ found = [c \in Calls |-> <<>>]
  /\ thrown = [c \in Calls |-> <<>>]
  /\ log = NoLog

\* ----------------------------------------------------------------- startup

\* main: await fs.access(CREDENTIALS_PATH)
CheckCredentials ==
  /\ mainpc = "start"
  /\ \E exists \in BOOLEAN :
       /\ credentialsSeen' = IF exists THEN "exists" ELSE "missing"
       /\ IF StartupCheck(exists) = "exit"
            THEN mainpc' = "exited" /\ exitCode' = ExitFailure
            ELSE mainpc' = "checkToken" /\ exitCode' = exitCode
  /\ UNCHANGED <<tokenSeen, toolsListed, auth, clients, events, dispatched,
                 handlerVars, log>>

\* main: await fs.access(TOKEN_PATH)
CheckToken ==
  /\ mainpc = "checkToken"
  /\ \E exists \in BOOLEAN :
       /\ tokenSeen' = IF exists THEN "exists" ELSE "missing"
       /\ IF StartupCheck(exists) = "exit"
            THEN mainpc' = "exited" /\ exitCode' = ExitFailure
            ELSE mainpc' = "connecting" /\ exitCode' = exitCode
  /\ UNCHANGED <<credentialsSeen, toolsListed, auth, clients, events,
                 dispatched, handlerVars, log>>

\* main: await server.connect(transport)
Connect ==
  /\ mainpc = "connecting"
  /\ mainpc' = "connected"
  /\ UNCHANGED <<exitCode, credentialsSeen, tokenSeen, toolsListed, auth,
                 clients, events, dispatched, handlerVars, log>>

\* The ListToolsRequestSchema handler: answers with TOOLS
ListTools ==
  /\ mainpc = "connected"
  /\ toolsListed' = TRUE
  /\ UNCHANGED <<startupVars, auth, clients, events, dispatched, handlerVars,
                 log>>

\* -------------------------------------------------------------- call-tool steps

ToolOf(c) == CaseOf(request[c].name)

Params(c) == ParamsOf(ToolOf(c), request[c])

\* The text an operation returns when a stretch of it ends
TextOf(out) ==
  IF out.kind = "throw" THEN OperationCatch(out.message) ELSE out.text

\* A handler whose operation has no catch: an exception leaves the request
\* without a ToolResult
SettleUncaught(c, out) ==
  /\ pc' = [pc EXCEPT ![c] = IF out.kind = "await" THEN "remote"
                             ELSE IF out.kind = "throw" THEN "failed"
                             ELSE "done"]
  /\ pending' = [pending EXCEPT ![c] = out.call]
  /\ calls' = [calls EXCEPT
                 ![c] = IF out.kind = "await" THEN Append(@, out.call) ELSE @]
  /\ returned' = [returned EXCEPT
                    ![c] = IF out.kind = "return" THEN <<out.text>> ELSE @]
  /\ result' = [result EXCEPT
                  ![c] = IF out.kind = "return" THEN Wrapped(out.text) ELSE @]

\* The handler c after a stretch of its operation: suspended on the remote
\* call the stretch issued, or done with the returned text wrapped.
Settle(c, out) ==
  /\ pc' = [pc EXCEPT ![c] = IF out.kind = "await" THEN "remote" ELSE "done"]
  /\ pending' = [pending EXCEPT ![c] = out.call]
  /\ calls' = [calls EXCEPT
                 ![c] = IF out.kind = "await" THEN Append(@, out.call) ELSE @]
  /\ returned' = [returned EXCEPT
                    ![c] = IF out.kind = "await" THEN @ ELSE <<TextOf(out)>>]
  /\ result' = [result EXCEPT
                  ![c] = IF out.kind = "await" THEN @ ELSE Wrapped(TextOf(out))]

\* initializeAuth has thrown in handler c: the operation's catch returns the
\* report of the authentication error.
AuthFailed(c) ==
  /\ auth' = AuthAfterFailure(auth, clients + 1)
  /\ Settle(c, Throw(AuthInitMessage))
  /\ log' = [log EXCEPT !.initFailed = TRUE]
  /\ UNCHANGED <<clients, authClient, credentials>>

\* The handler takes a request: the switch, the arguments' defaults, the
\* operation's validation and getCalendar, up to the first suspension.
Handle(c, req) ==
  /\ mainpc = "connected"
  /\ pc[c] = "idle"
  /\ \A d \in Calls : d < c => pc[d] # "idle"
  /\ dispatched < MaxDispatch
  /\ dispatched' = dispatched + 1
  /\ request' = [request EXCEPT ![c] = req]
  /\ before' = [before EXCEPT ![c] = events]
  /\ LET tool == CaseOf(req.name)
         p == ParamsOf(tool, req)
         v == ValidateAll(p, RequiredOf(tool))
     IN IF tool = "default"
          THEN /\ result' = [result EXCEPT
                               ![c] = HandlerCatch(<<"Unknown tool: ">> \o req.name)]
               /\ pc' = [pc EXCEPT ![c] = "done"]
               /\ UNCHANGED <<pending, calls, returned, authClient, reads>>
        ELSE IF v.threw
          THEN /\ Settle(c, Throw(v.message))
               /\ UNCHANGED <<authClient, reads>>
        ELSE IF IsCached(auth)
          THEN /\ authClient' = [authClient EXCEPT ![c] = auth]
               /\ Settle(c, FirstCall(tool, p))
               /\ UNCHANGED reads
        ELSE /\ pc' = [pc EXCEPT ![c] = "readCredentials"]
             /\ reads' = [reads EXCEPT ![c] = Append(@, "credentials")]
             /\ UNCHANGED <<pending, calls, returned, result, authClient>>
  /\ UNCHANGED <<startupVars, toolsListed, auth, clients, events, credentials,
                 found, thrown, log>>

\* Requests arrive one at a time: the next is delivered after the response
CallTool(c) ==
  /\ \A d \in Calls : pc[d] = "idle"
  /\ \E req \in Requests : Handle(c, req)

\* initializeAuth of handler c resumes with the credentials file's content
CredentialsRead(c) ==
  /\ pc[c] = "readCredentials"
  /\ \E content \in CredentialsStates :
       /\ found' = [found EXCEPT ![c] = Append(@, content)]
       /\ IF CredentialsLoadThrows(content)
            THEN /\ AuthFailed(c)
                 /\ UNCHANGED reads
            ELSE /\ credentials' = [credentials EXCEPT ![c] = content]
                 /\ pc' = [pc EXCEPT ![c] = "readToken"]
                 /\ reads' = [reads EXCEPT ![c] = Append(@, "token")]
                 /\ UNCHANGED <<auth, clients, authClient, pending, calls,
                                returned, result, log>>
  /\ UNCHANGED <<startupVars, toolsListed, events, dispatched, request, before,
                 thrown>>

\* initializeAuth of handler c resumes with the token file's content, builds
\* and caches the client, and the operation runs on to its first remote call
TokenRead(c) ==
  /\ pc[c] = "readToken"
  /\ \E content \in TokenStates :
       /\ found' = [found EXCEPT ![c] = Append(@, content)]
       /\ IF TokenLoadThrows(content) \/ ClientSetupThrows(credentials[c])
            THEN AuthFailed(c)
            ELSE /\ auth' = NewClient(clients + 1)
                 /\ clients' = clients + 1
                 /\ authClient' = [authClient EXCEPT ![c] = NewClient(clients + 1)]
                 /\ Settle(c, FirstCall(ToolOf(c), Params(c)))
                 /\ UNCHANGED <<credentials, log>>
  /\ UNCHANGED <<startupVars, toolsListed, events, dispatched, request, reads,
                 before, thrown>>

\* The last getEvent that succeeded, with no write since, was for the event
\* and calendar of p
SameGet(p) ==
  /\ log.got # <<>>
  /\ log.got[1].eventId = p["eventId"]
  /\ log.got[1].calendarId = p["calendarId"]

\* The history of reports after the service has answered a call: a created
\* event's given summary and reported id, summary and times; a getEvent's text; an insert,
\* update or delete that was carried out overtakes the getEvent texts, and an
\* update or delete of the created event overtakes its report. `times` counts
\* the getEvents of one event that succeeded with no write between them.
LogAfter(tool, p, call, out) ==
  IF ~out.ok THEN log
  ELSE IF call.api = "events.insert"
    THEN [created |-> <<[id |-> out.data.id,
                         calendarId |-> p["calendarId"],
                         given |-> p["summary"],
                         summary |-> Show(out.data.summary),
                         start |-> Show(When(out.data.start)),
                         end |-> Show(When(out.data.end))]>>,
          got |-> <<>>,
          initFailed |-> log.initFailed]
  ELSE IF call.api \in {"events.update", "events.delete"}
    THEN [created |-> IF log.created # <<>>
                           /\ log.created[1].id = call.args["eventId"]
                        THEN <<>> ELSE log.created,
          got |-> <<>>,
          initFailed |-> log.initFailed]
  ELSE IF call.api = "events.get" /\ tool = "get_event"
    THEN [log EXCEPT !.got = <<[eventId |-> p["eventId"],
                                calendarId |-> p["calendarId"],
                                times |-> IF SameGet(p) THEN log.got[1].times + 1
                                          ELSE 1,
                                text |-> getEventText(out.data)]>>]
  ELSE log

\* The remote service answers the call handler c is suspended on, and the
\* operation runs on to its next remote call or to its return
RemoteResponse(c) ==
  /\ pc[c] = "remote"
  /\ \E out \in RemoteOutcomes(pending[c], events, authClient[c]) :
       /\ events' = out.store
       /\ log' = LogAfter(ToolOf(c), Params(c), pending[c], out)
       /\ thrown' = [thrown EXCEPT
                       ![c] = IF out.ok THEN <<>> ELSE <<out.message>>]
       /\ IF out.ok
            THEN Settle(c, AfterResponse(ToolOf(c), Params(c), pending[c], out.data))
            ELSE Settle(c, Throw(out.message))
  /\ UNCHANGED <<startupVars, toolsListed, auth, clients, dispatched, request,
                 credentials, authClient, reads, before, found>>

\* The transport sends the ToolResult of handler c to the client
Respond(c) ==
  /\ pc[c] = "done"
  /\ pc' = [pc EXCEPT ![c] = "idle"]
  /\ request' = [request EXCEPT ![c] = NoRequest]
  /\ credentials' = [credentials EXCEPT ![c] = "none"]
  /\ authClient' = [authClient EXCEPT ![c] = NoAuth]
  /\ pending' = [pending EXCEPT ![c] = NoCall]
  /\ result' = [result EXCEPT ![c] = NoResult]
  /\ returned' = [returned EXCEPT ![c] = <<>>]
  /\ calls' = [calls EXCEPT ![c] = <<>>]
  /\ reads' = [reads EXCEPT ![c] = <<>>]
  /\ before' = [before EXCEPT ![c] = InitialEvents]
  /\ found' = [found EXCEPT ![c] = <<>>]
  /\ thrown' = [thrown EXCEPT ![c] = <<>>]
  /\ UNCHANGED <<startupVars, toolsListed, auth, clients, events, dispatched,
                 log>>

Next ==
  \/ CheckCredentials
  \/ CheckToken
  \/ Connect
  \/ ListTools
  \/ \E c \in Calls : CallTool(c)
  \/ \E c \in Calls : CredentialsRead(c)
  \/ \E c \in Calls : TokenRead(c)
  \/ \E c \in Calls : RemoteResponse(c)
  \/ \E c \in Calls : Respond(c)

Spec == Init /\ [][Next]_vars

\* The requests of overlapping handlers: the plain valid request of each tool
\* that reads or writes one event, a request that fails validation and one
\* for a name that is no tool's
OverlapRequests ==
  {r \in Requests :
     /\ r.hasArgs
     /\ \/ r.name = <<"nonexistent_tool">> /\ r.args = NoArgs
        \/ r.name = <<"get_event">> /\ r.args = NoArgs
        \/ /\ CaseOf(r.name) \in
                {"create_event", "update_event", "delete_event", "get_event"}
           /\ r.args = BaseArgs(CaseOf(r.name))}

\* The SDK starts the handler of a request when it arrives, whether or not
\* the handler of an earlier request is still suspended
CallToolOverlapping(c) ==
  \E req \in OverlapRequests : Handle(c, req)

NextOverlapping ==
  \/ CheckCredentials
  \/ CheckToken
  \/ Connect
  \/ ListTools
  \/ \E c \in Calls : CallToolOverlapping(c)
  \/ \E c \in Calls : CredentialsRead(c)
  \/ \E c \in Calls : TokenRead(c)
  \/ \E c \in Calls : RemoteResponse(c)
  \/ \E c \in Calls : Respond(c)

SpecOverlapping == Init /\ [][NextOverlapping]_vars

\* A handler that awaits a file read or a remote call is resumed
Resume ==
  \E c \in Calls : CredentialsRead(c) \/ TokenRead(c) \/ RemoteResponse(c)

\* Every file read and every remote call eventually returns or fails: while
\* some handler awaits one, some handler is eventually resumed. (A handler
\* takes at most four such steps and the requests are finitely many, so this
\* resumes every handler.)
Fairness == WF_vars(Resume)

\* The requests of the handlers whose progress is followed: an update_event,
\* which reads both files and makes two remote calls, a get_event that fails
\* validation and a name that is no tool's
LiveRequests ==
  {r \in OverlapRequests :
     \/ r.args = NoArgs
     \/ CaseOf(r.name) = "update_event"}

CallToolLive(c) ==
  \E req \in LiveRequests : Handle(c, req)

NextLive ==
  \/ CheckCredentials
  \/ CheckToken
  \/ Connect
  \/ ListTools
  \/ \E c \in Calls : CallToolLive(c)
  \/ \E c \in Calls : CredentialsRead(c)
  \/ \E c \in Calls : TokenRead(c)
  \/ \E c \in Calls : RemoteResponse(c)
  \/ \E c \in Calls : Respond(c)

\* Overlapping handlers, each file read and remote call eventually answered
SpecLive == Init /\ [][NextLive]_vars /\ Fairness

\* ------------------------------------------------------------------ claims

Done(c) == pc[c] = "done"

\* One of the seven recognized tool names
KnownName(name) == \E t \in ToolNames : name = <<t>>

NameIs(c, t) == request[c].name = <<t>>

\* A text of the form "(x) Error: <message>"
IsFailureReport(text) == text # <<>> /\ SubSeq(text, 1, 1) = formatError(<<>>)

\* The text block of a ToolResult
TextBlock(r) == r.content[1].text

\* The argument of a request is missing, empty or whitespace-only
BlankArg(req, key) ==
  \/ ~req.hasArgs
  \/ key \notin DOMAIN req.args
  \/ \A i \in 1..Len(req.args[key]) : req.args[key][i] = " "

\* The required inputs of each tool, as the tool schemas declare them
RequiredInputs(name) ==
  IF name = <<"create_event">> THEN {"summary", "start", "end"}
  ELSE IF name \in {<<"update_event">>, <<"delete_event">>, <<"get_event">>}
    THEN {"eventId"}
  ELSE IF name = <<"search_events">> THEN {"query"}
  ELSE {}

\* C1: for each recognized tool name and every argument mapping, whatever the
\* credential load and the remote call do, the handler does not raise: it
\* returns a ToolResult with exactly one block, of type text.
C1_NeverRaises ==
  \A c \in Calls :
    Done(c) /\ KnownName(request[c].name) =>
      /\ ~result[c].raised
      /\ Len(result[c].content) = 1
      /\ result[c].content[1].type = "text"

\* A recognized tool called with no argument mapping at all has answered, and
\* so has one whose remote call failed
C1_Witness ==
  \E c \in Calls :
    /\ Done(c) /\ KnownName(request[c].name)
    /\ \/ ~request[c].hasArgs /\ Len(result[c].content) = 1
       \/ calls[c] # <<>> /\ TextBlock(result[c]) = formatError(<<"socket hang up">>)

\* C2: when the operation the handler invoked returns a failure report, the
\* ToolResult has the error flag set.
C2_ErrorFlagOnFailureReport ==
  \A c \in Calls :
    Done(c) /\ returned[c] # <<>> /\ IsFailureReport(returned[c][1]) =>
      result[c].isError

\* The remote calls the operation of each tool makes
ApisFor(name) ==
  IF name \in {<<"list_events">>, <<"search_events">>} THEN {"events.list"}
  ELSE IF name = <<"create_event">> THEN {"events.insert"}
  ELSE IF name = <<"update_event">> THEN {"events.get", "events.update"}
  ELSE IF name = <<"delete_event">> THEN {"events.delete"}
  ELSE IF name = <<"list_calendars">> THEN {"calendarList.list"}
  ELSE IF name = <<"get_event">> THEN {"events.get"}
  ELSE {}

\* C3: an unrecognized name yields the error report "Unknown tool: <name>"
\* with the error flag set, and no file read and no remote call; a recognized
\* name yields exactly the text its own operation returned.
C3_UnknownToolOnly ==
  \A c \in Calls :
    Done(c) =>
      IF KnownName(request[c].name)
        THEN /\ returned[c] # <<>>
             /\ TextBlock(result[c]) = returned[c][1]
             /\ \A i \in 1..Len(calls[c]) :
                  calls[c][i].api \in ApisFor(request[c].name)
        ELSE /\ ~result[c].raised
             /\ Len(result[c].content) = 1
             /\ Contains(TextBlock(result[c]),
                         <<"Unknown tool: ">> \o request[c].name)
             /\ IsFailureReport(TextBlock(result[c]))
             /\ result[c].isError
             /\ reads[c] = <<>>
             /\ calls[c] = <<>>
             /\ returned[c] = <<>>

\* A request for a name that differs from a tool's only by a trailing blank
\* has been answered
C3_Witness ==
  \E c \in Calls :
    /\ Done(c)
    /\ request[c].name = <<"get_event", " ">>
    /\ result[c].isError

\* C4: an operation one of whose required inputs is missing, empty or
\* whitespace-only returns the validation failure report of a required input
\* and issues no remote call.
C4_ValidationBeforeRemote ==
  \A c \in Calls :
    /\ pc[c] # "idle"
    /\ \E k \in RequiredInputs(request[c].name) : BlankArg(request[c], k)
    => /\ Done(c)
       /\ calls[c] = <<>>
       /\ \E k \in RequiredInputs(request[c].name) :
            /\ BlankArg(request[c], k)
            /\ returned[c] = <<formatError(<<k, " is required">>)>>

\* A create_event whose summary is whitespace-only, and a search_events with
\* an empty query, have been refused
C4_Witness ==
  \E c \in Calls :
    /\ Done(c)
    /\ \/ /\ NameIs(c, "create_event") /\ request[c].hasArgs
          /\ "summary" \in DOMAIN request[c].args
          /\ request[c].args["summary"] = <<" ">>
       \/ /\ NameIs(c, "search_events") /\ request[c].hasArgs
          /\ "query" \in DOMAIN request[c].args
          /\ request[c].args["query"] = <<>>
    /\ calls[c] = <<>>
    /\ IsFailureReport(returned[c][1])

\* The names of the remote calls a handler has issued, in order
ApisOf(c) == [i \in 1..Len(calls[c]) |-> calls[c][i].api]

\* An update_event request that supplies eventId and nothing else
OnlyEventId(c) ==
  /\ NameIs(c, "update_event")
  /\ request[c].hasArgs
  /\ DOMAIN request[c].args = {"eventId"}

\* C5: an update_event that supplies only eventId performs one get and then
\* one update, and the stored event is afterwards what it was before the call.
C5_UpdateOnlyEventIdPreserves ==
  \A c \in Calls :
    Done(c) /\ OnlyEventId(c) /\ ~IsFailureReport(returned[c][1]) =>
      /\ ApisOf(c) = <<"events.get", "events.update">>
      /\ events[request[c].args["eventId"]]
           = before[c][request[c].args["eventId"]]

\* The body of the update call of an update_event handler
UpdateBody(c) == calls[c][2].args["requestBody"]

\* The event an update_event handler is about, as stored when it was called
StoredBefore(c) == before[c][calls[c][2].args["eventId"]]

\* C6: on update_event, a mapping that omits description (location) keeps
\* the stored value in the update body, and one that gives it as the empty
\* string sends the empty string.
C6_PresenceVersusEmptiness ==
  \A c \in Calls :
    NameIs(c, "update_event") /\ Len(calls[c]) = 2 =>
      \A key \in {"description", "location"} :
        IF key \in DOMAIN request[c].args
          THEN request[c].args[key] = <<>> => UpdateBody(c)[key] = <<>>
          ELSE Field(UpdateBody(c), key, StoredBefore(c)[key])
                 = StoredBefore(c)[key]

Initializing(c) == pc[c] \in {"readCredentials", "readToken"}

\* C7: when handlers overlap before the client is cached, only one of them
\* reads the files (the other waits for it), and the cached client is
\* assigned at most once.
C7_SingleFlightInitialization ==
  /\ \A c, d \in Calls : c # d => ~(Initializing(c) /\ Initializing(d))
  /\ clients <= 1

\* C8: with one request at a time, once the client is cached it stays the
\* same client, no further client is constructed, no handler reads a file,
\* and a handler that takes a client takes the cached one.
C8_CachedForProcessLifetime ==
  [][auth # NoAuth =>
       /\ auth' = auth
       /\ clients' = clients
       /\ \A c \in Calls :
            /\ Len(reads'[c]) <= Len(reads[c])
            /\ authClient'[c] # authClient[c] => authClient'[c] \in {auth, NoAuth}
    ]_vars

\* A later handler has issued its remote call with the cached client and
\* without reading a file
C8_Witness ==
  \E c \in Calls :
    /\ dispatched >= 2
    /\ calls[c] # <<>>
    /\ reads[c] = <<>>
    /\ authClient[c] = auth
    /\ auth # NoAuth

Failed(c) == result[c].isError \/ IsFailureReport(TextBlock(result[c]))

\* The response of the service when it carries the call out
Carried(call, store) ==
  CHOOSE out \in RemoteOutcomes(call, store, NewClient(1)) :
    out.ok \/ out.message # <<"socket hang up">>

\* What an operation returns on a given store when every file is read and
\* the service carries out every call, computed apart from any handler
RECURSIVE RunFrom(_, _, _, _)
RunFrom(tool, p, out, store) ==
  IF out.kind # "await" THEN TextOf(out)
  ELSE LET r == Carried(out.call, store)
       IN IF r.ok
            THEN RunFrom(tool, p, AfterResponse(tool, p, out.call, r.data), r.store)
            ELSE OperationCatch(r.message)

ExpectedText(req, store) ==
  LET tool == CHOOSE t \in ToolNames : req.name = <<t>>
      p == ParamsOf(tool, req)
  IN RunFrom(tool, p, FirstCall(tool, p), store)

\* C9: a failed call leaves nothing behind: the remote events are what they
\* were when it arrived, the cache holds no client or a complete one, and the
\* server is still connected; and the text of a call that succeeds is the one
\* its operation yields on the events as they were when it arrived, whatever
\* calls failed before.
C9_FailedCallsLeaveNoTrace ==
  \A c \in Calls :
    Done(c) =>
      IF Failed(c)
        THEN /\ events = before[c]
             /\ mainpc = "connected"
             /\ exitCode = 0
             /\ auth = NoAuth \/ auth.credentials = "set"
        ELSE result[c] = ToolResult(ExpectedText(request[c], before[c]), FALSE)

\* The second call succeeded after reading the files itself, so the first
\* call had failed
C9_Witness ==
  \E c \in Calls :
    /\ Done(c)
    /\ ~Failed(c)
    /\ dispatched = 2
    /\ reads[c] = <<"credentials", "token">>

Served ==
  \/ toolsListed
  \/ dispatched > 0
  \/ \E c \in Calls : pc[c] # "idle"

\* C10: if either file is missing at the startup check the process exits with
\* a non-zero status and is never connected, and a request is served only
\* after the check of both files has passed.
C10_StartupGate ==
  /\ credentialsSeen = "missing" \/ tokenSeen = "missing" =>
       mainpc = "exited" /\ exitCode # 0 /\ ~Served
  /\ mainpc \in {"connecting", "connected"} \/ Served =>
       credentialsSeen = "exists" /\ tokenSeen = "exists"
  /\ Served => mainpc = "connected"

\* The credentials file was there and the token file was not: the process
\* has exited
C10_Witness ==
  /\ credentialsSeen = "exists"
  /\ tokenSeen = "missing"
  /\ mainpc = "exited"

\* The value a request gives a key, the empty string when it gives none
ArgOf(req, key) ==
  IF req.hasArgs /\ key \in DOMAIN req.args THEN req.args[key] ELSE <<>>

\* A string without any digit: the empty string, or a non-numeric one
NoDigit(s) == \A i \in 1..Len(s) : s[i] \notin Digits

Listing(c) == NameIs(c, "list_events") \/ NameIs(c, "search_events")

\* A timestamp argument the request leaves out, or one that denotes an instant
ParsesOrAbsent(req, key) == ArgOf(req, key) \in {<<>>} \cup DOMAIN IsoOf

GetsCreated(c) ==
  /\ NameIs(c, "get_event")
  /\ log.created # <<>>
  /\ ArgOf(request[c], "eventId") = log.created[1].id
  /\ Params(c)["calendarId"] = log.created[1].calendarId

\* C12: after a createEvent has succeeded, a getEvent with the id it returned,
\* on the same calendar and with no update or delete in between, is answered
\* (unless the call does not get through) with a success block that contains
\* the summary given to the create and the start and end the create reported.
C12_CreateThenGet ==
  \A c \in Calls :
    Done(c) /\ GetsCreated(c) =>
      \/ returned[c] = <<formatError(<<"socket hang up">>)>>
      \/ /\ ~Failed(c)
         /\ log.created[1].summary = log.created[1].given
         /\ Contains(returned[c][1], <<"(pin) ">> \o log.created[1].given \o <<"\n\n">>)
         /\ Contains(returned[c][1], <<"ID: ">> \o log.created[1].id \o <<"\n">>)
         /\ Contains(returned[c][1],
                     <<"Start: ">> \o log.created[1].start \o <<"\n">>)
         /\ Contains(returned[c][1], <<"End: ">> \o log.created[1].end \o <<"\n">>)

\* The event a create_event made has been fetched by the id it reported
C12_Witness ==
  \E c \in Calls :
    /\ Done(c) /\ GetsCreated(c)
    /\ ~Failed(c)
    /\ log.created[1].id = <<"e2">>
    /\ log.created[1].start = <<"2025-11-27T14:00:00.000Z">>

\* Handler c's getEvent returns its text in this step
GetReturns(c) ==
  /\ NameIs(c, "get_event")
  /\ pc[c] = "remote"
  /\ pc'[c] = "done"
  /\ ~IsFailureReport(returned'[c][1])

\* C13: getEvent is a pure read: while a get_event is handled the remote
\* events stay as they are, and a getEvent that succeeds for the same event
\* and calendar as an earlier one, with no create, update or delete carried
\* out between them, returns the text the earlier one returned.
C13_GetEventIsPureRead ==
  [][\A c \in Calls :
       /\ NameIs(c, "get_event") => events' = events
       /\ GetReturns(c) /\ SameGet(Params(c)) =>
            returned'[c][1] = log.got[1].text
    ]_vars

\* A second getEvent of the same event has returned, with no write between
C13_Witness ==
  \E c \in Calls :
    /\ Done(c)
    /\ NameIs(c, "get_event")
    /\ ~Failed(c)
    /\ log.got # <<>>
    /\ log.got[1].times = 2
    /\ log.got[1].text = returned[c][1]
    /\ events = before[c]

\* The messages of the errors the remote service answers with
RemoteMessages ==
  {<<"socket hang up">>, <<"Login Required.">>, <<"Not Found">>,
   <<"Calendar usage limits exceeded.">>}

\* The handler returned the report of a remote error
RemoteFailureReported(c) ==
  \E m \in RemoteMessages : returned[c] = <<formatError(m)>>

\* The timestamp arguments of each tool
TimeKeys(name) ==
  IF name = <<"list_events">> THEN {"timeMin", "timeMax"}
  ELSE IF name \in {<<"create_event">>, <<"update_event">>} THEN {"start", "end"}
  ELSE {}

\* A timestamp argument of the request is given and denotes no instant
BadTime(c) ==
  \E k \in TimeKeys(request[c].name) :
    /\ ArgOf(request[c], k) # <<>>
    /\ ArgOf(request[c], k) \notin DOMAIN IsoOf

\* The handler's operation passed its validation and obtained the client
PassedAndAuthorized(c) ==
  /\ KnownName(request[c].name)
  /\ \A k \in RequiredInputs(request[c].name) : ~BlankArg(request[c], k)
  /\ authClient[c] # NoAuth

\* updateEvent: a get and then an update, or a get that failed and then
\* nothing, the event being left as it was
GetThenUpdate(c) ==
  \/ ApisOf(c) = <<"events.get", "events.update">>
  \/ /\ ApisOf(c) = <<"events.get">>
     /\ RemoteFailureReported(c)
     /\ events = before[c]

\* C14 as stated: every invocation that passes validation and obtains the
\* client issues exactly one remote call, updateEvent a get and then an update
\* (the update only after the get succeeded).
C14_OneRemoteCall ==
  \A c \in Calls :
    Done(c) /\ PassedAndAuthorized(c) =>
      IF NameIs(c, "update_event") THEN GetThenUpdate(c)
      ELSE Len(calls[c]) = 1

\* C14: every invocation that passes validation and obtains the client, and
\* whose given timestamps all denote an instant, issues exactly one remote
\* call, updateEvent a get and then an update, the update only for an event the
\* get found; with a timestamp that denotes no instant listEvents and
\* createEvent issue no remote call and updateEvent issues the get alone, and
\* they return a failure report with the remote events unchanged.
C14_RemoteCallsPerInvocation ==
  \A c \in Calls :
    /\ Done(c) /\ PassedAndAuthorized(c) =>
         IF NameIs(c, "update_event")
           THEN IF BadTime(c)
                  THEN /\ ApisOf(c) = <<"events.get">>
                       /\ Failed(c)
                       /\ events = before[c]
                  ELSE GetThenUpdate(c)
         ELSE IF BadTime(c)
           THEN /\ calls[c] = <<>>
                /\ returned[c] = <<formatError(<<"Invalid time value">>)>>
                /\ events = before[c]
         ELSE /\ Len(calls[c]) = 1
              /\ calls[c][1].api \in ApisFor(request[c].name)
    /\ NameIs(c, "update_event") /\ Len(calls[c]) >= 2 =>
         /\ ApisOf(c) = <<"events.get", "events.update">>
         /\ calls[c][2].args["eventId"] \in DOMAIN before[c]
         /\ ~BadTime(c)

\* An update_event whose start denotes no instant has issued its get and then
\* returned a failure report
C14_Witness ==
  \E c \in Calls :
    /\ Done(c) /\ PassedAndAuthorized(c)
    /\ NameIs(c, "update_event")
    /\ ArgOf(request[c], "start") = <<"bad">>
    /\ ApisOf(c) = <<"events.get">>
    /\ returned[c] = <<formatError(<<"Invalid time value">>)>>

\* A read of handler c found a file missing, unreadable or not JSON
LoadFailed(c) ==
  \E i \in 1..Len(found[c]) : found[c][i] \in {"missing", "unreadable", "badjson"}

\* C15: no operation propagates a failure: the handler of a recognized tool
\* always gets a text back from its operation; after a validation failure, a
\* failure to load the credentials or a remote error that text is a failure
\* report "(x) Error: <message>", and for a remote error <message> is exactly
\* the message of that error.
C15_FailuresAreReturned ==
  \A c \in Calls :
    Done(c) /\ KnownName(request[c].name) =>
      /\ ~result[c].raised
      /\ returned[c] # <<>>
      /\ TextBlock(result[c]) = returned[c][1]
      /\ (\E k \in RequiredInputs(request[c].name) : BlankArg(request[c], k)) =>
           \E k \in RequiredInputs(request[c].name) :
             returned[c] = <<formatError(<<k, " is required">>)>>
      /\ LoadFailed(c) => returned[c] = <<formatError(AuthInitMessage)>>
      /\ thrown[c] # <<>> => returned[c] = <<formatError(thrown[c][1])>>

\* The service answered an update_event's get with "Not Found", and the
\* operation returned the report of exactly that
C15_Witness ==
  \E c \in Calls :
    /\ Done(c)
    /\ NameIs(c, "update_event")
    /\ thrown[c] = << <<"Not Found">> >>
    /\ returned[c] = << <<"(x) Error: ", "Not Found">> >>

\* What handler c read leaves initializeAuth nothing to build a client from:
\* a file missing, unreadable or not JSON, or credentials with neither
\* `installed` nor `web`, or with no redirect_uris, or with no client_id
UnusableFiles(c) ==
  \/ LoadFailed(c)
  \/ found[c] # <<>> /\ found[c][1] \in {"nosub", "nouris", "noid"}

\* C16: initializeAuth fails with the authentication error when a file is
\* missing, unreadable or not JSON, or when the credentials lack the expected
\* sub-field (neither `installed` nor `web`, or no client id, client secret
\* or redirect URI list in it), and in none of these cases is a client cached.
C16_InitFailsOnUnusableFiles ==
  \A c \in Calls :
    UnusableFiles(c) /\ ~Initializing(c) =>
      /\ returned[c] = <<formatError(AuthInitMessage)>>
      /\ authClient[c] = NoAuth
      /\ auth = NoAuth

\* The required string parameter a remote call's argument carries
CarriedFrom(key) ==
  CASE key = "eventId" -> "eventId"
    [] key = "q" -> "query"

\* C17: a required string parameter (eventId, query, summary) reaches the
\* remote call as the trimmed value validateRequired returned, not as the raw
\* argument.
C17_TrimmedBeforeUse ==
  \A c \in Calls :
    \A i \in 1..Len(calls[c]) :
      LET a == calls[c][i].args
          trimmed(k) == validateRequired(ArgOf(request[c], k), k).value
      IN /\ \A key \in {"eventId", "q"} \cap DOMAIN a :
              a[key] = trimmed(CarriedFrom(key))
         /\ calls[c][i].api = "events.insert" =>
              a["requestBody"]["summary"] = trimmed("summary")

InFlight(c) == pc[c] \notin {"idle", "done"}

\* C18: if every file read and remote call eventually returns or fails, every
\* call-tool request eventually gets its ToolResult: from some point on no
\* handler is left awaiting, a handler leaves a request only with a ToolResult
\* of one block, and a request is neither cancelled nor replaced while it is
\* handled, whatever other requests arrive; the ToolResult once produced stays
\* the one it is until it is sent.
C18_EveryRequestAnswered ==
  /\ <>[](\A c \in Calls : ~InFlight(c))
  /\ [](\A c \in Calls : Done(c) => Len(result[c].content) = 1)
  /\ [][\A c \in Calls :
          /\ InFlight(c) => pc'[c] # "idle" /\ request'[c] = request[c]
          /\ Done(c) => pc'[c] = "idle" \/ result'[c] = result[c]
       ]_vars

\* Two requests were handled at once, each read the files itself, and both
\* have got their ToolResult
C18_Witness ==
  /\ \A c \in {1, 2} :
       /\ Done(c)
       /\ reads[c] = <<"credentials", "token">>
       /\ ~Failed(c)
  /\ dispatched = 2

\* The remote calls that carry the timestamps of a request
TimedApis == {"events.list", "events.insert", "events.update"}

\* C19: a timestamp argument (start or end of createEvent and updateEvent,
\* timeMin or timeMax of listEvents) that is given and cannot be parsed yields
\* a failure report and no remote call of that invocation that would carry it:
\* no call at all for listEvents and createEvent, no update for updateEvent.
C19_UnparseableTimestamp ==
  \A c \in Calls :
    BadTime(c) =>
      /\ \A i \in 1..Len(calls[c]) : calls[c][i].api \notin TimedApis
      /\ ~NameIs(c, "update_event") => calls[c] = <<>>
      /\ Done(c) => IsFailureReport(returned[c][1]) /\ events = before[c]

\* A create_event whose start is "bad" and a list_events whose timeMin is
\* "bad" have returned their failure report after the client was obtained
C19_Witness ==
  \E c \in Calls :
    /\ Done(c)
    /\ authClient[c] # NoAuth
    /\ \/ NameIs(c, "create_event") /\ ArgOf(request[c], "start") = <<"bad">>
       \/ NameIs(c, "list_events") /\ ArgOf(request[c], "timeMin") = <<"bad">>
    /\ calls[c] = <<>>
    /\ returned[c] = <<formatError(<<"Invalid time value">>)>>

\* Both reads of handler c found a document that parses
BothParsed(f) ==
  /\ Len(f) = 2
  /\ f[1] \notin {"missing", "unreadable", "badjson"}
  /\ f[2] \notin {"missing", "unreadable", "badjson"}

\* C20: auth becomes non-null only in a step that completes the read and the
\* parse of both files, and a handler holds a client it built only after both;
\* an initialization that fails leaves auth null, so the next call that needs
\* the client starts with the read of the credentials file again and gets a
\* client only after reading both files.
C20_AuthOnlyAfterBothLoaded ==
  [][/\ auth' # auth =>
          \E c \in Calls :
            /\ pc[c] = "readToken"
            /\ BothParsed(found'[c])
            /\ auth' = authClient'[c]
            /\ auth' # NoAuth
     /\ \A c \in Calls :
          /\ Initializing(c) /\ ~Initializing(c)' /\ authClient'[c] = NoAuth =>
               /\ returned'[c] = <<formatError(AuthInitMessage)>>
               /\ auth' = NoAuth
          /\ /\ pc[c] = "idle"
             /\ auth = NoAuth
             /\ pc'[c] \notin {"idle", "done"}
             => pc'[c] = "readCredentials" /\ reads'[c] = <<"credentials">>
          /\ authClient'[c] # NoAuth /\ reads'[c] # <<>> =>
               /\ reads'[c] = <<"credentials", "token">>
               /\ BothParsed(found'[c])
    ]_vars

\* An initialization had failed, and a later call read both files and cached
\* the client it built
C20_Witness ==
  \E c \in Calls :
    /\ log.initFailed
    /\ dispatched = 2
    /\ reads[c] = <<"credentials", "token">>
    /\ BothParsed(found[c])
    /\ auth # NoAuth
    /\ auth = authClient[c]

\* The tools whose operation validates required inputs
Validating(name) ==
  name \in {<<"create_event">>, <<"update_event">>, <<"delete_event">>,
            <<"get_event">>, <<"search_events">>}

\* The request lacks a required input of its tool
FailsValidation(req) ==
  /\ Validating(req.name)
  /\ \E k \in RequiredInputs(req.name) : BlankArg(req, k)

\* C21: in createEvent, updateEvent, deleteEvent, getEvent and searchEvents
\* validation runs before the client is requested: the handler of a request
\* that fails validation returns in the step that takes the request, reads
\* neither file, obtains no client, and leaves the cached client as it was
\* (no client stays no client, and none is constructed).
C21_ValidationBeforeAuth ==
  [][\A c \in Calls :
       pc[c] = "idle" /\ pc'[c] # "idle" /\ FailsValidation(request'[c]) =>
         /\ pc'[c] = "done"
         /\ IsFailureReport(returned'[c][1])
         /\ reads'[c] = <<>>
         /\ found'[c] = <<>>
         /\ authClient'[c] = NoAuth
         /\ auth' = auth
         /\ clients' = clients
    ]_vars

\* A search_events with a whitespace-only query has been refused before any
\* client was built, and no file was read
C21_Witness ==
  \E c \in Calls :
    /\ Done(c)
    /\ NameIs(c, "search_events")
    /\ ArgOf(request[c], "query") = <<" ">>
    /\ reads[c] = <<>>
    /\ auth = NoAuth
    /\ clients = 0
    /\ returned[c] = <<formatError(<<"query", " is required">>)>>

====
